---- MODULE Spec2Model ----
(***************************************************************************)
(* PageRouter: configuration-based routing and phased page loading.       *)
(*                                                                         *)
(* JavaScript strings are modelled as sequences of tokens: the separators *)
(* "/" and "#" are tokens of their own and every maximal run of other     *)
(* characters is one token, so "/home" is <<"/", "home">> and the page    *)
(* identifier "home" is <<"home">>.  String concatenation is \o and       *)
(* String.prototype.replace(sep, "") removes the first sep token.  The    *)
(* JavaScript null is the empty sequence (no page identifier and no path  *)
(* of the configuration is the empty string).                             *)
(***************************************************************************)
EXTENDS Integers, Sequences, FiniteSets, TLC

(* Bound of the model: the navigation requests of one session. *)
MaxNavigations == 3

NULL == <<>>

(***************************************************************************)
(* Route configuration                                                     *)
(***************************************************************************)

(* export const routes = ["home", "chat", "chart", "excel"] *)
routes ==
  << [type |-> "string", name |-> <<"home">>,  path |-> NULL, page |-> NULL],
     [type |-> "string", name |-> <<"chat">>,  path |-> NULL, page |-> NULL],
     [type |-> "string", name |-> <<"chart">>, path |-> NULL, page |-> NULL],
     [type |-> "string", name |-> <<"excel">>, path |-> NULL, page |-> NULL] >>

(* export const aliases = { "/": "/home", "/pdf-extraction": "/home" },   *)
(* in Object.entries order.                                                *)
aliases ==
  << << <<"/">>, <<"/", "home">> >>,
     << <<"/", "pdf-extraction">>, <<"/", "home">> >> >>

(* The alias entry the page-system guide gives as its example:            *)
(* "/dashboard": "/home".                                                  *)
docAliases ==
  << << <<"/", "dashboard">>, <<"/", "home">> >> >>

(* The alias map the router is started with: the shipped entries followed *)
(* by the documented example entry.                                        *)
aliasEntries == aliases \o docAliases

(***************************************************************************)
(* Strings                                                                 *)
(***************************************************************************)

(* String.prototype.trim(): the whitespace at both ends is removed; " "   *)
(* is the whitespace token.                                                *)
RECURSIVE trimStart(_)
trimStart(s) ==
  IF s # << >> /\ Head(s) = " " THEN trimStart(Tail(s)) ELSE s

RECURSIVE trimEnd(_)
trimEnd(s) ==
  IF s # << >> /\ s[Len(s)] = " " THEN trimEnd(SubSeq(s, 1, Len(s) - 1)) ELSE s

trim(s) == trimEnd(trimStart(s))

(* String.prototype.replace(sep, "") with a string pattern: removes the   *)
(* first occurrence of sep and nothing else.                               *)
replaceFirst(s, sep) ==
  IF \E i \in 1..Len(s) : s[i] = sep
  THEN LET i == CHOOSE k \in 1..Len(s) :
                  s[k] = sep /\ \A j \in 1..(k - 1) : s[j] # sep
       IN  SubSeq(s, 1, i - 1) \o SubSeq(s, i + 1, Len(s))
  ELSE s

(***************************************************************************)
(* Route registration (PageRouter.registerRoutes, PageRouter.init) and    *)
(* the router engine's dispatch                                            *)
(***************************************************************************)

(* A registered callback: () => this.loadPage(page), or                   *)
(* (ctx) => this.loadPage(page, ctx) when withCtx, or the not-found one.  *)
LoadPageHandler(page, withCtx) ==
  [kind |-> "loadPage", page |-> page, withCtx |-> withCtx]

Show404Handler == [kind |-> "show404", page |-> NULL, withCtx |-> FALSE]

NoHandler == [kind |-> "none", page |-> NULL, withCtx |-> FALSE]

(* router("/", () => this.loadPage("pdf-extraction")) *)
rootRoute ==
  [path |-> <<"/">>, handler |-> LoadPageHandler(<<"pdf-extraction">>, FALSE)]

(* The body of routes.forEach for one entry: what it registers. *)
routeRegistration(route) ==
  IF route.type = "string"
  THEN << [path |-> <<"/">> \o route.name,
           handler |-> LoadPageHandler(route.name, FALSE)] >>
  ELSE IF route.type = "object" /\ route.path # NULL /\ route.page # NULL
  THEN << [path |-> route.path,
           handler |-> LoadPageHandler(route.page, TRUE)] >>
  ELSE << >>

(* The alias target used as it is. *)
aliasTargetPageRaw(target) == target

(* const targetPage = target.replace("/", "") *)
aliasTargetPage(target) == replaceFirst(target, "/")

(* The body of Object.entries(aliases).forEach for one entry. *)
aliasRegistration(entry) ==
  [path |-> entry[1],
   handler |-> LoadPageHandler(aliasTargetPage(entry[2]), FALSE)]

(* routes.forEach(...): a null entry makes `route.path` throw, which ends *)
(* the loop (typeof null is "object").                                     *)
RECURSIVE forEachRoute(_, _)
forEachRoute(rs, acc) ==
  IF rs = << >> THEN [regs |-> acc, threw |-> FALSE]
  ELSE IF Head(rs).type = "null" THEN [regs |-> acc, threw |-> TRUE]
  ELSE forEachRoute(Tail(rs), acc \o routeRegistration(Head(rs)))

(* registerRoutes: the callbacks registered, in registration order. *)
registerRoutes(rs, al) ==
  LET fromRoutes == forEachRoute(rs, << >>)
  IN  IF fromRoutes.threw
      THEN <<rootRoute>> \o fromRoutes.regs \o <<rootRoute>>
      ELSE <<rootRoute>> \o fromRoutes.regs
             \o [i \in 1..Len(al) |-> aliasRegistration(al[i])]

(* router("*", async () => await this.show404()) *)
wildcardRoute == [path |-> <<"*">>, handler |-> Show404Handler]

(* The router engine: a pattern matches a path it equals; "*" matches     *)
(* every path.                                                             *)
pathMatches(pattern, path) == pattern = <<"*">> \/ pattern = path

(* The router engine runs the callbacks in registration order; a callback *)
(* that does not call next() ends the dispatch, so the first match wins.  *)
Dispatch(tbl, path) ==
  IF \E i \in 1..Len(tbl) : pathMatches(tbl[i].path, path)
  THEN LET i == CHOOSE k \in 1..Len(tbl) :
                  /\ pathMatches(tbl[k].path, path)
                  /\ \A j \in 1..(k - 1) : ~pathMatches(tbl[j].path, path)
       IN  tbl[i].handler
  ELSE NoHandler

(***************************************************************************)
(* The environment: page bundles, the navigation list, requested paths    *)
(***************************************************************************)

(* The pages that have a bundle directory under src/pages. *)
PageDirs == { <<"home">>, <<"chat">>, <<"chart">>, <<"excel">> }

(* What `import("../pages/P/P.js")` resolves to: the module's exports.    *)
(* home, chat and chart export a default function; excel exports a        *)
(* default function and a named init.                                      *)
NoModule == [loaded |-> FALSE, hasDefault |-> FALSE, hasInit |-> FALSE]

PageModule(pageName) ==
  [loaded |-> TRUE, hasDefault |-> TRUE, hasInit |-> pageName = <<"excel">>]

(* The page modules whose top-level code calls their initializer. *)
AutoInitPages == { <<"excel">> }

(* excel.js, initExcelPage: the singleton is created once; its            *)
(* constructor calls init(), which sets the 100 ms timer that runs        *)
(* initEventListeners.                                                     *)
initExcelPage(instance) == [instance |-> TRUE, timer |-> ~instance]

(* How the entry point of a page module attaches the page's listeners:    *)
(* home and chat at once, chart from a 100 ms timer it sets, excel        *)
(* through initExcelPage.                                                  *)
entryWiring(pageName) ==
  IF pageName = <<"excel">> THEN "singleton"
  ELSE IF pageName = <<"chart">> THEN "timer"
  ELSE "now"

(* The href attributes of the side navigation's items, in document order; *)
(* NULL is an item without href.                                           *)
navItems ==
  << <<"/", "home">>, <<"#", "home">>, <<"/", "chat">>, NULL >>

(* The paths a session with overlapping navigations requests: two pages   *)
(* and a path nothing is registered for.                                   *)
NavPaths ==
  { <<"/", "home">>, <<"/", "chat">>, <<"/", "nowhere">> }

(* The paths a session with navigations one at a time requests: those,    *)
(* the root path and the alias paths.                                      *)
SeqPaths ==
  NavPaths \cup { <<"/">>, <<"/", "pdf-extraction">>, <<"/", "dashboard">> }

(* container.innerHTML *)
Markup(pageName) == <<"markup", pageName>>

NotFoundFragment == <<"notfound">>

EmptyContent == << >>

(***************************************************************************)
(* State                                                                   *)
(***************************************************************************)

(* The slots for loadPage / show404 calls in flight: two requests may     *)
(* overlap.                                                                *)
Tasks == {1, 2}

VARIABLES
  config,       \* the routes array of the route configuration
  doc,          \* which elements the document has
  boot,         \* where the DOMContentLoaded handler of main.js stands
  appReady,     \* #app has the class "ready"
  started,      \* router.start() has run
  table,        \* the router engine's callbacks, in registration order
  container,    \* contentContainer.innerHTML
  opacity,      \* contentContainer.style.opacity
  currentPage,  \* this.currentPage
  loadedCSS,    \* this.loadedCSS
  selected,     \* item.selected of each navigation-list item
  navs,         \* the loadPage / show404 calls in flight
  evaluated,    \* the evaluated page modules whose top-level code acts
  excelPageInstance,  \* the excel module's singleton exists
  timers,       \* the pages with a pending 100 ms wiring timer
  wired,        \* listeners are attached to the container's content
  requests,     \* number of navigation requests so far
  cssCalls,     \* per page, how often its stylesheet import was invoked
  cssFailed,    \* the pages whose stylesheet import has ever rejected
  pre,          \* the state when the latest request with none in flight came
  ev,           \* the latest step and what it did
  clicked,      \* the side navigation's last selection-change event
  excelPage,    \* the fields of the ExcelPage object, and what it was asked to do
  chatPage      \* the chat page's send button and its processChatQuery calls

(* The state of the page modules. *)
modvars == << evaluated, excelPageInstance, timers >>

(* What only the widgets of the shell and of the pages set. *)
widgets == << clicked, excelPage, chatPage >>

(* What only the application's startup sets. *)
startup == << config, doc, boot, appReady >>

vars == << startup, started, table, container, opacity, currentPage, loadedCSS,
           selected, navs, modvars, wired, requests, cssCalls, cssFailed,
           pre, ev, widgets >>

(* A loadPage or show404 call that is suspended at an await.              *)
(*   pc: "register" awaiting loadAndExecuteJS / cssPromise,               *)
(*       "html" awaiting loadHTML, "settle" in the 50 ms pause of         *)
(*       loadPage, "show404" in the 50 ms pause of show404;               *)
(*   path: the path the router engine dispatched;                         *)
(*   css: "cached" (loadCSS returned at once), "pending", "loaded",       *)
(*        "failed";  js, html: "pending", "loaded", "failed";             *)
(*   jsModule: what loadAndExecuteJS returned;                             *)
(*   init: "ran" / "threw" once executeJSInit has invoked an entry point. *)
FreeTask ==
  [pc |-> "free", path |-> NULL, pageName |-> NULL, ctx |-> NULL,
   css |-> "none", js |-> "none", jsModule |-> NoModule, html |-> "none",
   init |-> "none"]

InFlight == { t \in Tasks : navs[t].pc # "free" }

Quiescent == InFlight = {}

(* What a step did: the call that ran (nav: as it was before the step),   *)
(* the imports it started, the entry point it invoked and the arguments   *)
(* it was called with, the page whose listener wiring ran, the event it   *)
(* dispatched.                                                             *)
NoEvent ==
  [op |-> "none", task |-> 0, nav |-> FreeTask, calls |-> {},
   entry |-> "none", args |-> << >>, wire |-> NULL, event |-> NULL]

Snapshot ==
  [container |-> container, opacity |-> opacity, currentPage |-> currentPage,
   loadedCSS |-> loadedCSS, selected |-> selected]

Count(bag, x) == IF x \in DOMAIN bag THEN bag[x] ELSE 0

Incr(bag, x) ==
  [y \in DOMAIN bag \cup {x} |-> IF y = x THEN Count(bag, x) + 1 ELSE bag[y]]

(* No call of handleFileUpload or performAnalysis yet. *)
NoExcelCall ==
  [op |-> "none", input |-> << >>, fileId |-> << >>, sent |-> {}, error |-> FALSE]

(* new ExcelPage(): currentFileId = null, analysisHistory = []; added is   *)
(* the list of all entries addToAnalysisHistory was ever called with,      *)
(* upload and analysis the requests awaited, last the latest call of       *)
(* handleFileUpload or performAnalysis: its input, the current file it     *)
(* found, the requests it sent and whether it showed an error.             *)
NewExcelPage ==
  [currentFileId |-> NULL, analysisHistory |-> << >>, added |-> << >>,
   upload |-> "none", analysis |-> NULL, last |-> NoExcelCall]

(* The chat page before any query: the send button is not loading, no     *)
(* processChatQuery call is suspended, nothing was sent.  last is the      *)
(* latest step of processChatQuery, with the flag and the number of        *)
(* requests it found.                                                      *)
ChatCalls == {1, 2}

NoChatStep == [op |-> "none", outcome |-> "none", loading |-> FALSE, sent |-> 0]

NewChatPage ==
  [loading |-> FALSE, calls |-> [c \in ChatCalls |-> "free"], sent |-> 0,
   alerts |-> 0, response |-> "initial", last |-> NoChatStep]

(* No selection-change event has been handled. *)
NoClick == [item |-> 0, target |-> FALSE, before |-> 0, calls |-> << >>]

(* The document of the application: content is the element the selector  *)
(* ".content" finds, nav the elements #nl1, #startButton and #sn1 of the  *)
(* navigation, app the element #app.                                       *)
Documents == [content : BOOLEAN, nav : BOOLEAN, app : BOOLEAN]

(* The document with all of them. *)
FullDocument == [content |-> TRUE, nav |-> TRUE, app |-> TRUE]

(* The state after `new PageRouter()`, with rs the routes array that the  *)
(* route configuration exports and d the document.                         *)
InitWith(rs, d) ==
  /\ config = rs
  /\ doc = d
  /\ boot = "loading"
  /\ appReady = FALSE
  /\ started = FALSE
  /\ table = << >>
  /\ container = EmptyContent
  /\ opacity = ""
  /\ currentPage = NULL
  /\ loadedCSS = {}
  /\ selected = [k \in 1..Len(navItems) |-> FALSE]
  /\ navs = [t \in Tasks |-> FreeTask]
  /\ evaluated = {}
  /\ excelPageInstance = FALSE
  /\ timers = {}
  /\ wired = FALSE
  /\ requests = 0
  /\ cssCalls = << >>
  /\ cssFailed = {}
  /\ pre = [container |-> EmptyContent, opacity |-> "", currentPage |-> NULL,
            loadedCSS |-> {}, selected |-> selected]
  /\ ev = NoEvent
  /\ clicked = NoClick
  /\ excelPage = NewExcelPage
  /\ chatPage = NewChatPage

(* The shipped route configuration. *)
Init == InitWith(routes, FullDocument)

(***************************************************************************)
(* PageRouter.init                                                         *)
(***************************************************************************)

(* init: querySelector finds the container or init throws; then           *)
(* registerRoutes, the wildcard, router.start().                           *)
init(found) ==
  IF found
  THEN /\ table' = registerRoutes(config, aliasEntries) \o <<wildcardRoute>>
       /\ started' = TRUE
  ELSE UNCHANGED << table, started >>

(* pageRouter.init(".content") in a document that has the container. *)
RouterInit ==
  /\ ~started
  /\ doc.content
  /\ init(doc.content)
  /\ ev' = [NoEvent EXCEPT !.op = "init"]
  /\ UNCHANGED << modvars, wired >>
  /\ UNCHANGED << widgets, startup, container, opacity, currentPage, loadedCSS, selected, navs,
                  requests, cssCalls, cssFailed, pre >>

(***************************************************************************)
(* PageRouter.loadPage, up to its first await                              *)
(***************************************************************************)

(* The guard with the test of ctx inverted. *)
isCurrentPageWithCtx(cur, pageName, ctx) == cur = pageName /\ ctx # NULL

(* if (this.currentPage === pageName && !ctx) return; *)
isCurrentPage(cur, pageName, ctx) == cur = pageName /\ ctx = NULL

(* loadCSS without its look-up in the cache. *)
cssCachedNever(cache, pageName) == FALSE

(* loadCSS: if (this.loadedCSS.has(pageName)) return; *)
cssCached(cache, pageName) == pageName \in cache

loadPage(t, path, pageName, ctx) ==
  IF isCurrentPage(currentPage, pageName, ctx)
  THEN /\ ev' = [NoEvent EXCEPT !.op = "noop",
                                !.nav = [FreeTask EXCEPT !.path = path,
                                                         !.pageName = pageName,
                                                         !.ctx = ctx]]
       /\ UNCHANGED << container, opacity, currentPage, loadedCSS, selected,
                       navs, wired, cssCalls >>
  ELSE LET cached == cssCached(loadedCSS, pageName)
           nav == [FreeTask EXCEPT
                     !.pc = "register", !.path = path, !.pageName = pageName,
                     !.ctx = ctx, !.js = "pending",
                     !.css = IF cached THEN "cached" ELSE "pending"]
       IN  /\ opacity' = "0"
           /\ navs' = [navs EXCEPT ![t] = nav]
           /\ cssCalls' = IF cached THEN cssCalls ELSE Incr(cssCalls, pageName)
           /\ ev' = [NoEvent EXCEPT
                       !.op = "start", !.task = t, !.nav = nav,
                       !.calls = {<<"js", pageName>>} \cup
                                 (IF cached THEN {} ELSE {<<"css", pageName>>})]
           /\ UNCHANGED << container, currentPage, loadedCSS, selected,
                           wired >>

(***************************************************************************)
(* PageRouter.show404, up to its await                                     *)
(***************************************************************************)

(* show404 that also forgets the current page. *)
show404ResetPage(t, op, nav) ==
  /\ opacity' = "0"
  /\ container' = NotFoundFragment
  /\ wired' = FALSE
  /\ currentPage' = NULL
  /\ navs' = [navs EXCEPT ![t] = [nav EXCEPT !.pc = "show404"]]
  /\ ev' = [NoEvent EXCEPT !.op = op, !.task = t, !.nav = nav]
  /\ UNCHANGED << loadedCSS, selected, cssCalls >>

show404(t, op, nav) ==
  /\ opacity' = "0"
  /\ container' = NotFoundFragment
  /\ wired' = FALSE
  /\ navs' = [navs EXCEPT ![t] = [nav EXCEPT !.pc = "show404"]]
  /\ ev' = [NoEvent EXCEPT !.op = op, !.task = t, !.nav = nav]
  /\ UNCHANGED << currentPage, loadedCSS, selected, cssCalls >>

(***************************************************************************)
(* A navigation request: the router engine dispatches the path to the     *)
(* first matching callback.                                                *)
(***************************************************************************)

navigate(path) ==
  /\ started
  /\ requests < MaxNavigations
  /\ InFlight # Tasks
  /\ Dispatch(table, path).kind # "none"
  /\ requests' = requests + 1
  /\ pre' = IF Quiescent THEN Snapshot ELSE pre
  /\ LET t == CHOOSE k \in Tasks :
                 navs[k].pc = "free" /\ \A j \in 1..(k - 1) : navs[j].pc # "free"
         h == Dispatch(table, path)
     IN  IF h.kind = "loadPage"
         THEN loadPage(t, path, h.page, IF h.withCtx THEN <<path>> ELSE NULL)
         ELSE show404(t, "wildcard", [FreeTask EXCEPT !.path = path])
  /\ UNCHANGED modvars
  /\ UNCHANGED << startup, started, table, cssFailed >>

(* A navigation requested by anything but the side navigation. *)
Navigate(path) == navigate(path) /\ UNCHANGED widgets

(***************************************************************************)
(* PageRouter.loadPage after its awaits                                    *)
(***************************************************************************)

(* loadPage without its `await cssPromise`. *)
readyForHTMLNoJoin(nav) == nav.js # "pending"

(* const jsModule = await this.loadAndExecuteJS(...); await cssPromise;   *)
(* loadHTML is called once both have settled.                              *)
readyForHTML(nav) == nav.js # "pending" /\ nav.css # "pending"

(* The continuation that takes the markup of a page whose style is in the *)
(* cache as resolved already, without calling loadHTML.                    *)
resumeCachedMarkup(nav) ==
  IF nav.pc = "register" /\ readyForHTML(nav)
  THEN [nav EXCEPT !.pc = "html",
                   !.html = IF nav.css = "cached" THEN "loaded" ELSE "pending"]
  ELSE nav

(* The continuation of loadPage that runs when loadAndExecuteJS or        *)
(* loadCSS settles: it calls loadHTML if nothing is awaited any more.     *)
resume(nav) ==
  IF nav.pc = "register" /\ readyForHTML(nav)
  THEN [nav EXCEPT !.pc = "html", !.html = "pending"]
  ELSE nav

htmlCall(old, new) ==
  IF old.html = "none" /\ new.html = "pending"
  THEN {<<"html", new.pageName>>}
  ELSE {}

Settle(t, op, nav) ==
  /\ navs' = [navs EXCEPT ![t] = resume(nav)]
  /\ ev' = [NoEvent EXCEPT !.op = op, !.task = t, !.nav = navs[t],
                           !.calls = htmlCall(navs[t], resume(nav))]

(* loadCSS that starts the cache afresh when an import resolves. *)
CSSLoadedReplaces(t) ==
  /\ navs[t].css = "pending"
  /\ navs[t].pageName \in PageDirs
  /\ loadedCSS' = {navs[t].pageName}
  /\ Settle(t, "css-loaded", [navs[t] EXCEPT !.css = "loaded"])
  /\ UNCHANGED << modvars, wired >>
  /\ UNCHANGED << widgets, startup, started, table, container, opacity, currentPage,
                  selected,
                  requests, cssCalls, cssFailed, pre >>

(* loadCSS: the stylesheet import resolved; this.loadedCSS.add(pageName). *)
CSSLoaded(t) ==
  /\ navs[t].css = "pending"
  /\ navs[t].pageName \in PageDirs
  /\ loadedCSS' = loadedCSS \cup {navs[t].pageName}
  /\ Settle(t, "css-loaded", [navs[t] EXCEPT !.css = "loaded"])
  /\ UNCHANGED << modvars, wired >>
  /\ UNCHANGED << widgets, startup, started, table, container, opacity, currentPage,
                  selected,
                  requests, cssCalls, cssFailed, pre >>

(* loadCSS that records the page although its import rejected. *)
CSSFailedCached(t) ==
  /\ navs[t].css = "pending"
  /\ loadedCSS' = loadedCSS \cup {navs[t].pageName}
  /\ cssFailed' = cssFailed \cup {navs[t].pageName}
  /\ Settle(t, "css-failed", [navs[t] EXCEPT !.css = "failed"])
  /\ UNCHANGED << modvars, wired >>
  /\ UNCHANGED << widgets, startup, started, table, container, opacity, currentPage,
                  selected,
                  requests, cssCalls, pre >>

(* loadCSS: the import rejected; the catch only warns. *)
CSSFailed(t) ==
  /\ navs[t].css = "pending"
  /\ cssFailed' = cssFailed \cup {navs[t].pageName}
  /\ Settle(t, "css-failed", [navs[t] EXCEPT !.css = "failed"])
  /\ UNCHANGED << modvars, wired >>
  /\ UNCHANGED << widgets, startup, started, table, container, opacity, currentPage,
                  loadedCSS,
                  selected, requests, cssCalls, pre >>

(* loadAndExecuteJS(pageName, "register"): the import resolved.  A module *)
(* is evaluated on its first import only; the top-level code of excel.js  *)
(* then calls initExcelPage() (document.readyState is not "loading" once  *)
(* the router runs).                                                       *)
JSLoaded(t) ==
  /\ navs[t].js = "pending"
  /\ navs[t].pageName \in PageDirs
  /\ Settle(t, "js-loaded",
            [navs[t] EXCEPT !.js = "loaded",
                            !.jsModule = PageModule(navs[t].pageName)])
  /\ LET P == navs[t].pageName
         auto == P \in AutoInitPages /\ P \notin evaluated
         r == initExcelPage(excelPageInstance)
     IN  /\ evaluated' = evaluated \cup ({P} \cap AutoInitPages)
         /\ excelPageInstance' = IF auto THEN r.instance
                                 ELSE excelPageInstance
         /\ timers' = IF auto /\ r.timer THEN timers \cup {P} ELSE timers
  /\ UNCHANGED wired
  /\ UNCHANGED << widgets, startup, started, table, container, opacity, currentPage,
                  loadedCSS,
                  selected, requests, cssCalls, cssFailed, pre >>

(* loadAndExecuteJS without its try/catch: the rejection reaches the      *)
(* catch of loadPage.                                                      *)
JSFailedFatal(t) ==
  /\ navs[t].js = "pending"
  /\ show404(t, "js-failed", [navs[t] EXCEPT !.js = "failed"])
  /\ UNCHANGED modvars
  /\ UNCHANGED << widgets, startup, started, table, requests, cssFailed, pre >>

(* loadAndExecuteJS: the import rejected; the catch warns and returns     *)
(* null.                                                                   *)
JSFailed(t) ==
  /\ navs[t].js = "pending"
  /\ Settle(t, "js-failed",
            [navs[t] EXCEPT !.js = "failed", !.jsModule = NoModule])
  /\ UNCHANGED << modvars, wired >>
  /\ UNCHANGED << widgets, startup, started, table, container, opacity, currentPage,
                  loadedCSS,
                  selected, requests, cssCalls, cssFailed, pre >>

(* executeJSInit with its two tests in the other order. *)
executeJSInitPrefersInit(jsModule) ==
  IF ~jsModule.loaded THEN "none"
  ELSE IF jsModule.hasInit THEN "init"
  ELSE IF jsModule.hasDefault THEN "default"
  ELSE "none"

(* executeJSInit: the entry point it invokes. *)
executeJSInit(jsModule) ==
  IF ~jsModule.loaded THEN "none"
  ELSE IF jsModule.hasDefault THEN "default"
  ELSE IF jsModule.hasInit THEN "init"
  ELSE "none"

(* executeJSInit: the arguments of the call of the entry point,           *)
(* jsModule.default() or jsModule.init().                                  *)
entryArguments(jsModule, ctx) == << >>

(* loadPage that inserts the markup and calls executeJSInit only after    *)
(* its 50 ms pause: this step invokes no entry point.                      *)
insertAndInitLater(t, outcome) ==
  /\ container' = Markup(navs[t].pageName)
  /\ navs' = [navs EXCEPT
                ![t].pc = "settle", ![t].html = "loaded",
                ![t].init = IF executeJSInit(navs[t].jsModule) = "none"
                            THEN "none" ELSE outcome]
  /\ ev' = [NoEvent EXCEPT !.op = "insert", !.task = t, !.nav = navs[t]]
  /\ wired' = FALSE
  /\ UNCHANGED modvars
  /\ UNCHANGED << widgets, startup, started, table, opacity, currentPage, loadedCSS,
                  selected, requests, cssCalls, cssFailed, pre >>

(* this.contentContainer.innerHTML = htmlContent; executeJSInit; then the *)
(* 50 ms pause.  outcome: whether the entry point returned or threw.  The *)
(* inserted fragment is new: it has no listeners until the page's code    *)
(* attaches them.                                                          *)
insertAndInit(t, outcome) ==
  /\ container' = Markup(navs[t].pageName)
  /\ navs' = [navs EXCEPT
                ![t].pc = "settle", ![t].html = "loaded",
                ![t].init = IF executeJSInit(navs[t].jsModule) = "none"
                            THEN "none" ELSE outcome]
  /\ ev' = [NoEvent EXCEPT !.op = "insert", !.task = t, !.nav = navs[t],
                           !.entry = executeJSInit(navs[t].jsModule),
                           !.args = entryArguments(navs[t].jsModule,
                                                   navs[t].ctx),
                           !.wire =
                             IF /\ executeJSInit(navs[t].jsModule) # "none"
                                /\ outcome = "ran"
                                /\ entryWiring(navs[t].pageName) = "now"
                             THEN navs[t].pageName ELSE NULL]
  /\ LET P == navs[t].pageName
         ran == executeJSInit(navs[t].jsModule) # "none" /\ outcome = "ran"
         how == entryWiring(P)
         r == initExcelPage(excelPageInstance)
     IN  /\ wired' = (ran /\ how = "now")
         /\ excelPageInstance' = IF ran /\ how = "singleton" THEN r.instance
                                 ELSE excelPageInstance
         /\ timers' = IF ran /\ how = "timer" THEN timers \cup {P}
                       ELSE IF ran /\ how = "singleton" /\ r.timer
                       THEN timers \cup {P}
                       ELSE timers
         /\ UNCHANGED evaluated
  /\ UNCHANGED << widgets, startup, started, table, opacity, currentPage, loadedCSS, selected,
                  requests, cssCalls, cssFailed, pre >>

(* executeJSInit without its try/catch: an exception of the entry point   *)
(* reaches the catch of loadPage.                                          *)
HTMLLoadedInitFatal(t) ==
  /\ navs[t].pc = "html"
  /\ navs[t].pageName \in PageDirs
  /\ \/ insertAndInit(t, "ran")
     \/ /\ executeJSInit(navs[t].jsModule) # "none"
        /\ show404(t, "insert",
                   [navs[t] EXCEPT !.html = "loaded", !.init = "threw"])
        /\ UNCHANGED modvars
        /\ UNCHANGED << widgets, startup, started, table, requests, cssFailed, pre >>

(* loadHTML resolved: the markup is inserted and executeJSInit runs in    *)
(* the same turn; an exception of the entry point is caught there.  Then  *)
(* loadPage waits 50 ms.                                                   *)
HTMLLoaded(t) ==
  /\ navs[t].pc = "html"
  /\ navs[t].pageName \in PageDirs
  /\ \/ insertAndInit(t, "ran")
     \/ /\ executeJSInit(navs[t].jsModule) # "none"
        /\ insertAndInit(t, "threw")

(* loadHTML that returns undefined instead of throwing: loadPage goes on  *)
(* to its 50 ms pause and reveals.                                         *)
HTMLFailedSwallowed(t) ==
  /\ navs[t].pc = "html"
  /\ container' = EmptyContent
  /\ wired' = FALSE
  /\ navs' = [navs EXCEPT ![t].pc = "settle", ![t].html = "failed"]
  /\ ev' = [NoEvent EXCEPT !.op = "insert", !.task = t, !.nav = navs[t]]
  /\ UNCHANGED modvars
  /\ UNCHANGED << widgets, startup, started, table, opacity, currentPage, loadedCSS, selected,
                  requests, cssCalls, cssFailed, pre >>

(* loadHTML threw: the catch of loadPage calls show404. *)
HTMLFailed(t) ==
  /\ navs[t].pc = "html"
  /\ show404(t, "html-failed", [navs[t] EXCEPT !.html = "failed"])
  /\ UNCHANGED modvars
  /\ UNCHANGED << widgets, startup, started, table, requests, cssFailed, pre >>

(* for each item: item.selected = (href === "#P" || href === "/P") *)
hrefMatches(href, pageName) ==
  href = <<"#">> \o pageName \/ href = <<"/">> \o pageName

(* updateNavigationSelection without its else branch. *)
updateNavigationSelectionNoClear(sel, pageName) ==
  [i \in DOMAIN sel |-> hrefMatches(navItems[i], pageName) \/ sel[i]]

(* updateNavigationSelection that flips a matching item instead of       *)
(* selecting it.                                                           *)
updateNavigationSelectionToggle(sel, pageName) ==
  [i \in DOMAIN sel |-> hrefMatches(navItems[i], pageName) /\ ~sel[i]]

updateNavigationSelection(sel, pageName) ==
  [i \in DOMAIN sel |-> hrefMatches(navItems[i], pageName)]

(* loadPage that records and announces its page only if its own markup   *)
(* is still the container's content.                                       *)
RevealUnlessReplaced(t) ==
  /\ navs[t].pc = "settle"
  /\ opacity' = "1"
  /\ LET P == IF container = Markup(navs[t].pageName)
              THEN navs[t].pageName ELSE currentPage
     IN  /\ currentPage' = P
         /\ selected' = updateNavigationSelection(selected, P)
         /\ ev' = [NoEvent EXCEPT !.op = "reveal", !.task = t,
                                  !.nav = navs[t], !.event = P]
  /\ navs' = [navs EXCEPT ![t] = FreeTask]
  /\ UNCHANGED << modvars, wired >>
  /\ UNCHANGED << widgets, startup, started, table, container, loadedCSS, requests,
                  cssCalls, cssFailed, pre >>

(* loadPage that dispatches "pageChanged" before it records the page: the *)
(* event carries the page that was current.                                *)
RevealStaleEvent(t) ==
  /\ navs[t].pc = "settle"
  /\ opacity' = "1"
  /\ currentPage' = navs[t].pageName
  /\ selected' = updateNavigationSelection(selected, navs[t].pageName)
  /\ navs' = [navs EXCEPT ![t] = FreeTask]
  /\ ev' = [NoEvent EXCEPT !.op = "reveal", !.task = t, !.nav = navs[t],
                           !.event = currentPage]
  /\ UNCHANGED << modvars, wired >>
  /\ UNCHANGED << widgets, startup, started, table, container, loadedCSS, requests,
                  cssCalls, cssFailed, pre >>

(* The 50 ms pause of loadPage is over: reveal, record the page, sync the *)
(* navigation list, dispatch "pageChanged".                                *)
Reveal(t) ==
  /\ navs[t].pc = "settle"
  /\ opacity' = "1"
  /\ currentPage' = navs[t].pageName
  /\ selected' = updateNavigationSelection(selected, navs[t].pageName)
  /\ navs' = [navs EXCEPT ![t] = FreeTask]
  /\ ev' = [NoEvent EXCEPT !.op = "reveal", !.task = t, !.nav = navs[t],
                           !.event = navs[t].pageName]
  /\ UNCHANGED << modvars, wired >>
  /\ UNCHANGED << widgets, startup, started, table, container, loadedCSS, requests, cssCalls,
                  cssFailed, pre >>

(* show404 without its last statement: the container is left as it is.   *)
Show404DoneStaysHidden(t) ==
  /\ navs[t].pc = "show404"
  /\ navs' = [navs EXCEPT ![t] = FreeTask]
  /\ ev' = [NoEvent EXCEPT !.op = "notfound", !.task = t, !.nav = navs[t]]
  /\ UNCHANGED << modvars, wired >>
  /\ UNCHANGED << widgets, startup, started, table, container, opacity, currentPage, loadedCSS,
                  selected, requests, cssCalls, cssFailed, pre >>

(* The 50 ms pause of show404 is over. *)
Show404Done(t) ==
  /\ navs[t].pc = "show404"
  /\ opacity' = "1"
  /\ navs' = [navs EXCEPT ![t] = FreeTask]
  /\ ev' = [NoEvent EXCEPT !.op = "notfound", !.task = t, !.nav = navs[t]]
  /\ UNCHANGED << modvars, wired >>
  /\ UNCHANGED << widgets, startup, started, table, container, currentPage, loadedCSS, selected,
                  requests, cssCalls, cssFailed, pre >>

(***************************************************************************)
(* main.js: the DOMContentLoaded handler                                   *)
(***************************************************************************)

(* if (app) app.classList.add("ready") *)
markReady(d) == d.app

(* The handler with a catch that only logs the error. *)
DOMContentLoadedCatchLogs ==
  /\ boot = "loading"
  /\ ~started
  /\ init(doc.content)
  /\ boot' = IF doc.content /\ doc.nav THEN "waiting" ELSE "done"
  /\ appReady' = appReady
  /\ ev' = [NoEvent EXCEPT
              !.op = IF doc.content THEN "init" ELSE "init-threw"]
  /\ UNCHANGED << widgets, config, doc >>
  /\ UNCHANGED << modvars, wired >>
  /\ UNCHANGED << container, opacity, currentPage, loadedCSS, selected, navs,
                  requests, cssCalls, cssFailed, pre >>

(* The handler up to its 100 ms pause: await pageRouter.init(".content"), *)
(* handleNavigation() (which throws when the navigation's elements are    *)
(* missing); the catch marks the shell ready.                              *)
DOMContentLoaded ==
  /\ boot = "loading"
  /\ ~started
  /\ init(doc.content)
  /\ IF doc.content /\ doc.nav
     THEN /\ boot' = "waiting"
          /\ appReady' = appReady
     ELSE /\ boot' = "done"
          /\ appReady' = markReady(doc)
  /\ ev' = [NoEvent EXCEPT
              !.op = IF doc.content THEN "init" ELSE "init-threw"]
  /\ UNCHANGED << widgets, config, doc >>
  /\ UNCHANGED << modvars, wired >>
  /\ UNCHANGED << container, opacity, currentPage, loadedCSS, selected, navs,
                  requests, cssCalls, cssFailed, pre >>

(* The 100 ms pause of the handler is over: the shell is marked ready. *)
ShellReady ==
  /\ boot = "waiting"
  /\ boot' = "done"
  /\ appReady' = markReady(doc)
  /\ ev' = [NoEvent EXCEPT !.op = "ready"]
  /\ UNCHANGED << widgets, config, doc >>
  /\ UNCHANGED << modvars, wired >>
  /\ UNCHANGED << started, table, container, opacity, currentPage, loadedCSS,
                  selected, navs, requests, cssCalls, cssFailed, pre >>

(* A 100 ms wiring timer of page P fires: initEventListeners (excel) or    *)
(* initializeDashboard (chart) looks its elements up by id and attaches   *)
(* listeners to those it finds, which are there only while P's markup is  *)
(* the container's content.                                                *)
WiringTimer(P) ==
  /\ P \in timers
  /\ timers' = timers \ {P}
  /\ wired' = IF container = Markup(P) THEN TRUE ELSE wired
  /\ ev' = [NoEvent EXCEPT !.op = "timer", !.wire = P]
  /\ UNCHANGED << evaluated, excelPageInstance >>
  /\ UNCHANGED << widgets, startup, started, table, container, opacity, currentPage,
                  loadedCSS, selected, navs, requests, cssCalls, cssFailed,
                  pre >>

(***************************************************************************)
(* navigation.js: the selection-change listener of the side navigation     *)
(***************************************************************************)

(* The path with only the "#" removed from the href. *)
widgetPathHashOnly(href) == <<"/">> \o replaceFirst(href, "#")

(* const pageName = href.replace("#", "").replace("/", "");                *)
(* pageRouter.navigate(`/${pageName}`)                                     *)
widgetPath(href) == <<"/">> \o replaceFirst(replaceFirst(href, "#"), "/")

(* The listener handles the selection-change of item i of the navigation   *)
(* list, which has a target attribute or not: it returns for an item with  *)
(* a target attribute and for one without href, and else calls             *)
(* pageRouter.navigate.  The event comes when no call is in flight.        *)
SelectionChange(i, target) ==
  /\ started
  /\ Quiescent
  /\ LET href == navItems[i]
     IN  IF target \/ href = NULL
         THEN /\ clicked' = [item |-> i, target |-> target, before |-> requests,
                             calls |-> << >>]
              /\ ev' = [NoEvent EXCEPT !.op = "selection-change"]
              /\ UNCHANGED << startup, started, table, container, opacity,
                              currentPage, loadedCSS, selected, navs, modvars,
                              wired, requests, cssCalls, cssFailed, pre >>
         ELSE /\ clicked' = [item |-> i, target |-> target, before |-> requests,
                             calls |-> << widgetPath(href) >>]
              /\ navigate(widgetPath(href))
  /\ UNCHANGED << excelPage, chatPage >>

(***************************************************************************)
(* excel.js: the ExcelPage object                                          *)
(***************************************************************************)

(* The number of entries addToAnalysisHistory keeps. *)
HistoryLimit == 10

(* Array.prototype.slice(-n): the last n elements, all if there are fewer. *)
sliceLast(s, n) ==
  IF Len(s) > n THEN SubSeq(s, Len(s) - n + 1, Len(s)) ELSE s

(* slice(0, n): the first n elements. *)
sliceFirst(s, n) ==
  IF Len(s) > n THEN SubSeq(s, 1, n) ELSE s

(* addToAnalysisHistory that keeps the oldest entries. *)
pushAndTrimOldest(history, item) ==
  IF Len(history) + 1 > HistoryLimit
  THEN sliceFirst(Append(history, item), HistoryLimit)
  ELSE Append(history, item)

(* this.analysisHistory.push(historyItem);                                 *)
(* if (length > 10) this.analysisHistory = this.analysisHistory.slice(-10) *)
pushAndTrim(history, item) ==
  IF Len(history) + 1 > HistoryLimit
  THEN sliceLast(Append(history, item), HistoryLimit)
  ELSE Append(history, item)

(* addToAnalysisHistory(question, answer): the entry carries the question, *)
(* the answer and the current file.                                        *)
addToAnalysisHistory(page, question) ==
  LET historyItem == [question |-> question, fileId |-> page.currentFileId]
  IN  [page EXCEPT
         !.analysisHistory = pushAndTrim(page.analysisHistory, historyItem),
         !.added = Append(page.added, historyItem)]

(* String.prototype.toLowerCase on the tokens of file names. *)
toLowerCase(token) ==
  IF token \in {"XLSX", "Xlsx"} THEN "xlsx"
  ELSE IF token \in {"XLS", "Xls"} THEN "xls"
  ELSE token

(* The test of the file name without the `$` of the pattern. *)
validExcelNameAnywhere(name) ==
  \E k \in 1..(Len(name) - 1) :
    name[k] = "." /\ toLowerCase(name[k + 1]) \in {"xlsx", "xls"}

(* file.name.match(/\.(xlsx|xls)$/i) *)
validExcelName(name) ==
  /\ Len(name) >= 2
  /\ name[Len(name) - 1] = "."
  /\ toLowerCase(name[Len(name)]) \in {"xlsx", "xls"}

(* The names of the files the user selects or drops. *)
FileNames ==
  { <<"data", ".", "xlsx">>, <<"data", ".", "XLS">>, <<"data", ".", "csv">>,
    <<"xlsx">>, <<"data", ".", "xlsx", ".", "bak">>, <<"data", ".", "xlsm">> }

(* What #questionInput holds when performAnalysis runs. *)
QuestionInputs == { << >>, <<" ">>, <<" ", "q1", " ">> }

(* The file_id of the upload response. *)
UploadedFileId == <<"f1">>

(* handleFileUpload(file): a name that is no spreadsheet's gets an error   *)
(* message; else the upload request is sent.                               *)
HandleFileUpload(name) ==
  /\ excelPage.upload = "none"
  /\ LET call == [op |-> "upload", input |-> name,
                  fileId |-> excelPage.currentFileId, sent |-> {}, error |-> FALSE]
     IN  IF ~validExcelName(name)
         THEN excelPage' = [excelPage EXCEPT !.last = [call EXCEPT !.error = TRUE]]
         ELSE excelPage' = [excelPage EXCEPT
                              !.upload = "pending",
                              !.last = [call EXCEPT !.sent = {<<"upload", name>>}]]
  /\ ev' = [NoEvent EXCEPT !.op = "excel"]
  /\ UNCHANGED << clicked, chatPage >>
  /\ UNCHANGED << startup, started, table, container, opacity, currentPage,
                  loadedCSS, selected, navs, modvars, wired, requests, cssCalls,
                  cssFailed, pre >>

(* The upload request settled: on success the timers that end in          *)
(* openFileAnalysis are set, else an error is shown.                       *)
UploadSettled(success) ==
  /\ excelPage.upload = "pending"
  /\ excelPage' = [excelPage EXCEPT !.upload = IF success THEN "opening" ELSE "none"]
  /\ ev' = [NoEvent EXCEPT !.op = "excel"]
  /\ UNCHANGED << clicked, chatPage >>
  /\ UNCHANGED << startup, started, table, container, opacity, currentPage,
                  loadedCSS, selected, navs, modvars, wired, requests, cssCalls,
                  cssFailed, pre >>

(* openFileAnalysis(response.file_id, ...): this.currentFileId = fileId *)
OpenFileAnalysis ==
  /\ excelPage.upload = "opening"
  /\ excelPage' = [excelPage EXCEPT !.upload = "none",
                                    !.currentFileId = UploadedFileId]
  /\ ev' = [NoEvent EXCEPT !.op = "excel"]
  /\ UNCHANGED << clicked, chatPage >>
  /\ UNCHANGED << startup, started, table, container, opacity, currentPage,
                  loadedCSS, selected, navs, modvars, wired, requests, cssCalls,
                  cssFailed, pre >>

(* closeAnalysis(): this.currentFileId = null *)
CloseAnalysis ==
  /\ excelPage.currentFileId # NULL
  /\ excelPage' = [excelPage EXCEPT !.currentFileId = NULL]
  /\ ev' = [NoEvent EXCEPT !.op = "excel"]
  /\ UNCHANGED << clicked, chatPage >>
  /\ UNCHANGED << startup, started, table, container, opacity, currentPage,
                  loadedCSS, selected, navs, modvars, wired, requests, cssCalls,
                  cssFailed, pre >>

(* performAnalysis without its test of the question. *)
analysisAllowedAnyQuestion(fileId, input) == fileId # NULL

(* performAnalysis: if (!this.currentFileId) ...; if (!question) ...,      *)
(* with question = questionInput.value.trim()                              *)
analysisAllowed(fileId, input) == fileId # NULL /\ trim(input) # << >>

(* performAnalysis() up to its await: an error message, or the analyze     *)
(* request for the current file and the trimmed question.                  *)
PerformAnalysis(input) ==
  /\ excelPage.analysis = NULL
  /\ LET call == [op |-> "analysis", input |-> input,
                  fileId |-> excelPage.currentFileId, sent |-> {}, error |-> FALSE]
         request == [fileId |-> excelPage.currentFileId, question |-> trim(input)]
     IN  IF ~analysisAllowed(excelPage.currentFileId, input)
         THEN excelPage' = [excelPage EXCEPT !.last = [call EXCEPT !.error = TRUE]]
         ELSE excelPage' = [excelPage EXCEPT
                              !.analysis = request,
                              !.last = [call EXCEPT
                                          !.sent = {<<"analyze", request.fileId,
                                                      request.question>>}]]
  /\ ev' = [NoEvent EXCEPT !.op = "excel"]
  /\ UNCHANGED << clicked, chatPage >>
  /\ UNCHANGED << startup, started, table, container, opacity, currentPage,
                  loadedCSS, selected, navs, modvars, wired, requests, cssCalls,
                  cssFailed, pre >>

(* The questions of the analyses that succeed. *)
Questions == { <<"q1">>, <<"q2">> }

(* The number of analyses a session records. *)
MaxAdds == 12

(* The number of successful analyses of a session with uploads. *)
MaxAnalyses == 3

(* The analyze request settled: a successful analysis is added to the     *)
(* history, under the file that is current then.                           *)
AnalysisSettled(success) ==
  /\ excelPage.analysis # NULL
  /\ success => Len(excelPage.added) < MaxAnalyses
  /\ excelPage' =
       [(IF success
         THEN addToAnalysisHistory(excelPage, excelPage.analysis.question)
         ELSE excelPage) EXCEPT !.analysis = NULL]
  /\ ev' = [NoEvent EXCEPT !.op = "excel"]
  /\ UNCHANGED << clicked, chatPage >>
  /\ UNCHANGED << startup, started, table, container, opacity, currentPage,
                  loadedCSS, selected, navs, modvars, wired, requests, cssCalls,
                  cssFailed, pre >>

(* An analysis of `question` has succeeded: performAnalysis records it. *)
AddToHistory(question) ==
  /\ Len(excelPage.added) < MaxAdds
  /\ excelPage' = addToAnalysisHistory(excelPage, question)
  /\ ev' = [NoEvent EXCEPT !.op = "history"]
  /\ UNCHANGED << clicked, chatPage >>
  /\ UNCHANGED << startup, started, table, container, opacity, currentPage,
                  loadedCSS, selected, navs, modvars, wired, requests, cssCalls,
                  cssFailed, pre >>

(***************************************************************************)
(* chat.js: processChatQuery                                               *)
(***************************************************************************)

(* What the user has typed into #prompt-input. *)
Prompts == { << >>, <<" ">>, <<" ", "q1", " ">>, <<"q1", " ", "q2">> }

(* The number of queries a session sends. *)
MaxQueries == 3

(* processChatQuery whose `sendButton.loading = false` is the last        *)
(* statement of the try block instead of a finally block.                  *)
loadingAfterTryOnly(outcome, loading) ==
  IF outcome = "ok" THEN FALSE ELSE loading

(* finally { sendButton.loading = false; } *)
loadingAfter(outcome, loading) == FALSE

(* processChatQuery up to its first await: an empty prompt is answered     *)
(* by an alert; else the loading view is shown, the button is set loading  *)
(* and the request is sent.                                                *)
ProcessChatQuery(prompt) ==
  /\ chatPage.sent < MaxQueries
  /\ chatPage.alerts < MaxQueries
  /\ \E c \in ChatCalls : chatPage.calls[c] = "free"
  /\ LET c == CHOOSE k \in ChatCalls : chatPage.calls[k] = "free"
         step == [op |-> "call", outcome |-> "none",
                  loading |-> chatPage.loading, sent |-> chatPage.sent]
     IN  IF trim(prompt) = << >>
         THEN chatPage' = [chatPage EXCEPT
                             !.alerts = @ + 1,
                             !.last = [step EXCEPT !.outcome = "empty"]]
         ELSE chatPage' = [chatPage EXCEPT
                             !.response = "loading",
                             !.loading = TRUE,
                             !.sent = @ + 1,
                             !.calls[c] = "fetch",
                             !.last = [step EXCEPT !.outcome = "sent"]]
  /\ ev' = [NoEvent EXCEPT !.op = "chat"]
  /\ UNCHANGED << clicked, excelPage >>
  /\ UNCHANGED << startup, started, table, container, opacity, currentPage,
                  loadedCSS, selected, navs, modvars, wired, requests, cssCalls,
                  cssFailed, pre >>

(* fetch resolved with an ok status: the call awaits response.json(). *)
ChatResponseOk(c) ==
  /\ chatPage.calls[c] = "fetch"
  /\ chatPage' = [chatPage EXCEPT
                    !.calls[c] = "json",
                    !.last = [op |-> "response", outcome |-> "none",
                              loading |-> chatPage.loading, sent |-> chatPage.sent]]
  /\ ev' = [NoEvent EXCEPT !.op = "chat"]
  /\ UNCHANGED << clicked, excelPage >>
  /\ UNCHANGED << startup, started, table, container, opacity, currentPage,
                  loadedCSS, selected, navs, modvars, wired, requests, cssCalls,
                  cssFailed, pre >>

(* The outcomes that end a call that awaits fetch, and one that awaits     *)
(* response.json().                                                        *)
ChatOutcomes(stage) ==
  IF stage = "fetch" THEN {"network-failure", "http-error"}
  ELSE IF stage = "json" THEN {"ok", "malformed-body"}
  ELSE {}

(* The call ends: the result or, from the catch block, the error is shown; *)
(* the finally block runs.                                                 *)
ChatFinished(c, outcome) ==
  /\ outcome \in ChatOutcomes(chatPage.calls[c])
  /\ chatPage' = [chatPage EXCEPT
                    !.calls[c] = "free",
                    !.response = IF outcome = "ok" THEN "result" ELSE "error",
                    !.loading = loadingAfter(outcome, chatPage.loading),
                    !.last = [op |-> "finished", outcome |-> outcome,
                              loading |-> chatPage.loading, sent |-> chatPage.sent]]
  /\ ev' = [NoEvent EXCEPT !.op = "chat"]
  /\ UNCHANGED << clicked, excelPage >>
  /\ UNCHANGED << startup, started, table, container, opacity, currentPage,
                  loadedCSS, selected, navs, modvars, wired, requests, cssCalls,
                  cssFailed, pre >>

(***************************************************************************)
(* Specifications                                                          *)
(***************************************************************************)

Step ==
  \/ \E t \in Tasks : CSSLoaded(t)
  \/ \E t \in Tasks : CSSFailed(t)
  \/ \E t \in Tasks : JSLoaded(t)
  \/ \E t \in Tasks : JSFailed(t)
  \/ \E t \in Tasks : HTMLLoaded(t)
  \/ \E t \in Tasks : HTMLFailed(t)
  \/ \E t \in Tasks : Reveal(t)
  \/ \E t \in Tasks : Show404Done(t)

(* Navigations may overlap: a request can arrive while others are in      *)
(* flight.                                                                 *)
Next ==
  \/ RouterInit
  \/ \E path \in NavPaths : Navigate(path)
  \/ Step

Spec == Init /\ [][Next]_vars

(* The paths of a session observed until every call has ended: a page    *)
(* and a path nothing is registered for.                                   *)
FairPaths == { <<"/", "home">>, <<"/", "nowhere">> }

NextFair ==
  \/ RouterInit
  \/ \E path \in FairPaths : Navigate(path)
  \/ Step

(* Overlapping navigations in which every import settles (resolves or     *)
(* rejects) and every timer of a pause fires.                              *)
SpecFair ==
  /\ Init
  /\ [][NextFair]_vars
  /\ WF_vars(Step)

(* A request that arrives when no loadPage or show404 call is in flight.  *)
NavigateSeq(path) == Quiescent /\ Navigate(path)

(* Navigations one at a time. *)
NextSeq ==
  \/ RouterInit
  \/ \E path \in SeqPaths : NavigateSeq(path)
  \/ Step

SpecSeq == Init /\ [][NextSeq]_vars

(* The paths of a session that visits the spreadsheet page. *)
WirePaths == { <<"/", "excel">>, <<"/", "chat">> }

(* Navigations one at a time between the spreadsheet page and another     *)
(* page, and the wiring timers.                                            *)
NextWire ==
  \/ RouterInit
  \/ \E path \in WirePaths : NavigateSeq(path)
  \/ Step
  \/ \E P \in PageDirs : WiringTimer(P)

SpecWire == Init /\ [][NextWire]_vars

(* Bound of the model: the entries of a routes array. *)
MaxRoutes == 2

(* The entries a routes array is made of: page names; a structured entry  *)
(* { path: "/custom-path", page: "chart" }; structured entries that lack  *)
(* page or path; null; a number.                                           *)
RouteEntries ==
  { [type |-> "string", name |-> <<"home">>, path |-> NULL, page |-> NULL],
    [type |-> "string", name |-> <<"chat">>, path |-> NULL, page |-> NULL],
    [type |-> "object", name |-> NULL,
     path |-> <<"/", "custom-path">>, page |-> <<"chart">>],
    [type |-> "object", name |-> NULL,
     path |-> <<"/", "custom-path">>, page |-> NULL],
    [type |-> "object", name |-> NULL, path |-> NULL, page |-> <<"chart">>],
    [type |-> "null", name |-> NULL, path |-> NULL, page |-> NULL],
    [type |-> "number", name |-> NULL, path |-> NULL, page |-> NULL] }

RouteLists == UNION { [1..n -> RouteEntries] : n \in 0..MaxRoutes }

(* A session driven by the side navigation. *)
NextNav ==
  \/ RouterInit
  \/ \E i \in 1..Len(navItems) : \E target \in BOOLEAN : SelectionChange(i, target)
  \/ Step

SpecNav == Init /\ [][NextNav]_vars

(* The analyses of a session of the spreadsheet page. *)
NextHistory == \E question \in Questions : AddToHistory(question)

SpecHistory == Init /\ [][NextHistory]_vars

(* A session of the chat page. *)
NextChat ==
  \/ \E prompt \in Prompts : ProcessChatQuery(prompt)
  \/ \E c \in ChatCalls : ChatResponseOk(c)
  \/ \E c \in ChatCalls :
       \E outcome \in {"ok", "malformed-body", "network-failure", "http-error"} :
         ChatFinished(c, outcome)

SpecChat == Init /\ [][NextChat]_vars

(* A session of the spreadsheet page: uploads and analyses. *)
NextExcel ==
  \/ \E name \in FileNames : HandleFileUpload(name)
  \/ \E success \in BOOLEAN : UploadSettled(success)
  \/ OpenFileAnalysis
  \/ CloseAnalysis
  \/ \E input \in QuestionInputs : PerformAnalysis(input)
  \/ \E success \in BOOLEAN : AnalysisSettled(success)

SpecExcel == Init /\ [][NextExcel]_vars

(* The router is constructed with any routes array of RouteLists. *)
InitCfg == \E rs \in RouteLists : InitWith(rs, FullDocument)

CfgPaths ==
  { <<"/", "chat">>, <<"/", "custom-path">>, <<"/", "pdf-extraction">> }

(* The first navigation of a session. *)
NavigateCfg(path) == requests = 0 /\ Navigate(path)

(* Any route configuration, and one navigation. *)
NextCfg ==
  \/ RouterInit
  \/ \E path \in CfgPaths : NavigateCfg(path)
  \/ Step

SpecCfg == InitCfg /\ [][NextCfg]_vars

(* The application starts in any document. *)
InitBoot == \E d \in Documents : InitWith(routes, d)

(* The startup of the application and the first navigation. *)
NextBoot ==
  \/ DOMContentLoaded
  \/ ShellReady
  \/ \E path \in CfgPaths : NavigateCfg(path)
  \/ Step

(* The DOMContentLoaded event is delivered and the handler's timer fires. *)
SpecBoot ==
  /\ InitBoot
  /\ [][NextBoot]_vars
  /\ WF_vars(DOMContentLoaded)
  /\ WF_vars(ShellReady)

(***************************************************************************)
(* Properties                                                              *)
(***************************************************************************)

(* The step just taken ended a navigation: loadPage returned early,       *)
(* loadPage revealed the page, or show404 revealed the not-found view.    *)
Ended == ev.op \in {"noop", "reveal", "notfound"}

(* C1: within one navigation the markup is requested, and inserted, only  *)
(* after both the Behavior import and the Style resolution of that same   *)
(* navigation have settled: no loadPage call is awaiting loadHTML or has  *)
(* inserted its markup while its own js or css is still pending.          *)
MarkupAfterRegistration ==
  /\ \A t \in Tasks :
       navs[t].html # "none" => navs[t].js # "pending" /\ navs[t].css # "pending"
  /\ \A c \in ev.calls :
       c[1] = "html" => navs[ev.task].js # "pending" /\ navs[ev.task].css # "pending"
  /\ ev.op = "insert" =>
       /\ container = Markup(ev.nav.pageName)
       /\ ev.nav.js # "pending" /\ ev.nav.css # "pending"

(* A navigation has just inserted its markup after its own stylesheet     *)
(* import and module import both resolved.                                 *)
MarkupAfterRegistrationWitness ==
  /\ ev.op = "insert"
  /\ ev.nav.css = "loaded" /\ ev.nav.js = "loaded"
  /\ container = Markup(ev.nav.pageName)

(* C2: loadPage(P) without ctx while currentPage = P changes nothing: no  *)
(* import is started, container, opacity, currentPage, the style cache    *)
(* and the selection stay as they are, and no event is dispatched.        *)
IdempotentNavigation ==
  [][ ( /\ requests' # requests
        /\ ev'.op \in {"noop", "start"}
        /\ ev'.nav.pageName = currentPage
        /\ ev'.nav.ctx = NULL )
      => ( /\ UNCHANGED << container, opacity, currentPage, loadedCSS,
                           selected, navs, cssCalls, cssFailed >>
           /\ ev'.op = "noop"
           /\ ev'.calls = {}
           /\ ev'.event = NULL ) ]_vars

(* The latest request was for the page that is displayed and revealed.    *)
IdempotentNavigationWitness ==
  /\ ev.op = "noop"
  /\ ev.nav.pageName = currentPage
  /\ ev.nav.ctx = NULL
  /\ container = Markup(currentPage)
  /\ opacity = "1"

(* C3: with navigations one at a time, a page whose stylesheet import     *)
(* never rejected has had that import invoked at most once, and exactly   *)
(* once as soon as it is in the style cache, however often the page is    *)
(* visited; a visit that finds the page in the cache starts no import.    *)
StyleAppliedOnce ==
  /\ \A P \in (DOMAIN cssCalls) \cup loadedCSS :
       P \notin cssFailed =>
         /\ Count(cssCalls, P) <= 1
         /\ P \in loadedCSS => Count(cssCalls, P) = 1
  /\ (ev.op = "start" /\ ev.nav.pageName \in pre.loadedCSS) =>
       /\ <<"css", ev.nav.pageName>> \notin ev.calls
       /\ ev.nav.css = "cached"

(* A later visit of a page has completed; its stylesheet was in the cache *)
(* and has been imported once in the session.                              *)
StyleAppliedOnceWitness ==
  /\ ev.op = "reveal"
  /\ ev.nav.css = "cached"
  /\ ev.nav.pageName \notin cssFailed
  /\ Count(cssCalls, ev.nav.pageName) = 1
  /\ requests >= 3

(* The paths that a route or an alias is registered for. *)
RegisteredPaths == { table[i].path : i \in 1..Len(table) } \ { <<"*">> }

(* C4: with navigations one at a time, a navigation to a path that no     *)
(* route and no alias is registered for ends with the not-found fragment  *)
(* in the container, and currentPage and the style cache as they were     *)
(* when it was requested.                                                  *)
UnknownRouteFallback ==
  /\ (ev.op = "wildcard" \/ Ended) /\ ev.nav.path \notin RegisteredPaths =>
       /\ ev.op \in {"wildcard", "notfound"}
       /\ container = NotFoundFragment
       /\ currentPage = pre.currentPage
       /\ loadedCSS = pre.loadedCSS
  /\ Ended /\ ev.nav.path \notin RegisteredPaths => opacity = "1"

(* The not-found view has been revealed for an unregistered path while a  *)
(* page loaded earlier is still the current page.                          *)
UnknownRouteFallbackWitness ==
  /\ ev.op = "notfound"
  /\ ev.nav.path = <<"/", "nowhere">>
  /\ container = NotFoundFragment
  /\ currentPage \in PageDirs
  /\ currentPage \in loadedCSS

(* C5: with navigations one at a time, a navigation to P whose markup     *)
(* import fails ends with the not-found fragment in the container,        *)
(* currentPage (which is not P) and the selection as they were when it    *)
(* was requested, and no "pageChanged" event; an event is dispatched only *)
(* by the reveal of a call whose markup was loaded.                        *)
MissingMarkupIsNotFound ==
  /\ Ended /\ ev.nav.html = "failed" =>
       /\ ev.op = "notfound"
       /\ container = NotFoundFragment
       /\ opacity = "1"
       /\ currentPage = pre.currentPage
       /\ currentPage # ev.nav.pageName
       /\ selected = pre.selected
       /\ ev.event = NULL
  /\ ev.event # NULL => ev.op = "reveal" /\ ev.nav.html = "loaded"

(* The markup import of an existing page failed after its module and its  *)
(* stylesheet had loaded, and the not-found view has been revealed while  *)
(* another page is the current one.                                        *)
MissingMarkupIsNotFoundWitness ==
  /\ ev.op = "notfound"
  /\ ev.nav.html = "failed"
  /\ ev.nav.js = "loaded" /\ ev.nav.css = "loaded"
  /\ ev.nav.pageName \in PageDirs
  /\ currentPage \in PageDirs
  /\ \E i \in DOMAIN selected : selected[i]

(* C6: a navigation to P whose module import rejected is not aborted: it  *)
(* goes to the not-found view only if its markup import fails too; when   *)
(* its markup loads, the markup is inserted, no entry point is invoked,   *)
(* and the navigation ends revealed with currentPage = P and the          *)
(* "pageChanged" event for P.                                              *)
BehaviorFailureIsNotFatal ==
  /\ \A t \in Tasks :
       navs[t].js = "failed" /\ navs[t].html # "failed" =>
         navs[t].pc \in {"register", "html", "settle"}
  /\ ev.op = "insert" /\ ev.nav.js = "failed" =>
       /\ container = Markup(ev.nav.pageName)
       /\ ev.entry = "none"
  /\ Ended /\ ev.nav.js = "failed" /\ ev.nav.html # "failed" =>
       /\ ev.op = "reveal"
       /\ ev.nav.html = "loaded"
       /\ ev.nav.init = "none"
       /\ opacity = "1"
       /\ currentPage = ev.nav.pageName
       /\ ev.event = ev.nav.pageName

(* A page whose module import rejected has been revealed with its markup. *)
BehaviorFailureIsNotFatalWitness ==
  /\ ev.op = "reveal"
  /\ ev.nav.js = "failed"
  /\ ev.nav.html = "loaded"
  /\ container = Markup(ev.nav.pageName)
  /\ currentPage = ev.nav.pageName
  /\ opacity = "1"

(* C7: with navigations one at a time, a navigation to P whose stylesheet *)
(* import rejected leaves P out of the style cache and still, when its    *)
(* markup loads, inserts the markup, invokes the entry point of a loaded  *)
(* module, reveals and sets currentPage = P; a later navigation to P that *)
(* is not a no-op finds P not cached and starts the import again.         *)
StyleFailureIsNotFatal ==
  /\ \A t \in Tasks :
       navs[t].css = "failed" => navs[t].pageName \notin loadedCSS
  /\ Ended /\ ev.nav.css = "failed" => ev.nav.pageName \notin loadedCSS
  /\ Ended /\ ev.nav.css = "failed" /\ ev.nav.html # "failed" =>
       /\ ev.op = "reveal"
       /\ container = Markup(ev.nav.pageName)
       /\ ev.nav.js = "loaded" => ev.nav.init \in {"ran", "threw"}
       /\ opacity = "1"
       /\ currentPage = ev.nav.pageName
       /\ ev.event = ev.nav.pageName
  /\ ev.op = "start" /\ ev.nav.pageName \notin pre.loadedCSS =>
       /\ <<"css", ev.nav.pageName>> \in ev.calls
       /\ ev.nav.css = "pending"

(* A page whose stylesheet import rejected on an earlier visit is visited *)
(* again, and its stylesheet import is started a second time.              *)
StyleFailureIsNotFatalWitness ==
  /\ ev.op = "start"
  /\ ev.nav.pageName \in cssFailed
  /\ <<"css", ev.nav.pageName>> \in ev.calls
  /\ Count(cssCalls, ev.nav.pageName) = 2

(* The selection that matches page P exactly. *)
SelectionOf(P) ==
  [i \in DOMAIN navItems |->
     navItems[i] \in { <<"#">> \o P, <<"/">> \o P }]

(* C8: an entry point that throws does not abort the navigation: the      *)
(* markup stays inserted, the call goes on to its 50 ms pause and not to  *)
(* the not-found view, and it ends revealed with currentPage = P, the     *)
(* selection synchronised and the "pageChanged" event for P.               *)
InitFailureIsContained ==
  /\ \A t \in Tasks : navs[t].init = "threw" => navs[t].pc = "settle"
  /\ ev.op \in {"insert", "html-failed"} /\ navs[ev.task].init = "threw" =>
       container = Markup(ev.nav.pageName)
  /\ Ended /\ ev.nav.init = "threw" =>
       /\ ev.op = "reveal"
       /\ opacity = "1"
       /\ currentPage = ev.nav.pageName
       /\ selected = SelectionOf(ev.nav.pageName)
       /\ ev.event = ev.nav.pageName

(* A page whose entry point threw has been revealed. *)
InitFailureIsContainedWitness ==
  /\ ev.op = "reveal"
  /\ ev.nav.init = "threw"
  /\ ev.nav.jsModule.loaded
  /\ currentPage = ev.nav.pageName
  /\ opacity = "1"

(* C9: right after every reveal of page P every navigation-list item has  *)
(* a boolean selected value, and it is selected exactly if its href is    *)
(* "#P" or "/P".                                                           *)
NavigationSelectionExact ==
  ev.op = "reveal" =>
    \A i \in DOMAIN navItems :
      /\ selected[i] \in BOOLEAN
      /\ selected[i] <=>
           navItems[i] \in { <<"#">> \o ev.nav.pageName,
                             <<"/">> \o ev.nav.pageName }

(* A reveal has cleared an item that was selected for the page shown      *)
(* before, and selected another one.                                       *)
NavigationSelectionExactWitness ==
  /\ ev.op = "reveal"
  /\ \E i \in DOMAIN navItems : pre.selected[i] /\ ~selected[i]
  /\ \E j \in DOMAIN navItems : ~pre.selected[j] /\ selected[j]
  /\ pre.currentPage \in PageDirs

(* C10: with navigations one at a time, a navigation to "/dashboard" and  *)
(* a navigation to "/home" call the loader with the same arguments and    *)
(* end in the same state, which is one function of the state at the       *)
(* request and of how the imports of the navigation settled.              *)
AliasEquivalence ==
  Ended /\ ev.nav.path \in { <<"/", "dashboard">>, <<"/", "home">> } =>
    LET P == <<"home">>
        cache == pre.loadedCSS \cup (IF ev.nav.css = "loaded" THEN {P} ELSE {})
    IN  /\ ev.nav.pageName = P
        /\ ev.nav.ctx = NULL
        /\ IF pre.currentPage = P
           THEN /\ ev.op = "noop"
                /\ container = pre.container /\ opacity = pre.opacity
                /\ currentPage = P
                /\ loadedCSS = pre.loadedCSS /\ selected = pre.selected
           ELSE IF ev.nav.html = "loaded"
           THEN /\ ev.op = "reveal"
                /\ container = Markup(P) /\ opacity = "1"
                /\ currentPage = P
                /\ loadedCSS = cache /\ selected = SelectionOf(P)
           ELSE /\ ev.op = "notfound"
                /\ container = NotFoundFragment /\ opacity = "1"
                /\ currentPage = pre.currentPage
                /\ loadedCSS = cache /\ selected = pre.selected

(* A navigation to "/dashboard", requested while another page was shown,  *)
(* has ended with the home page revealed.                                  *)
AliasEquivalenceWitness ==
  /\ ev.op = "reveal"
  /\ ev.nav.path = <<"/", "dashboard">>
  /\ pre.currentPage = <<"chat">>
  /\ container = Markup(<<"home">>)
  /\ currentPage = <<"home">>

(* C11: every entry (source -> target) of the alias map is effective: a   *)
(* navigation to the source path calls the loader with the target without *)
(* its leading "/"; with the shipped map, "/" and "/pdf-extraction" both  *)
(* load page "home".                                                       *)
EveryAliasEffective ==
  \A i \in 1..Len(aliasEntries) :
    ( /\ ev.op \in {"noop", "start", "wildcard"}
      /\ ev.nav.path = aliasEntries[i][1] )
    => /\ ev.op \in {"noop", "start"}
       /\ ev.nav.pageName = replaceFirst(aliasEntries[i][2], "/")

(* C12: for a structured route {path, page}, the context object that the  *)
(* router engine passed for the matched path is the argument of the       *)
(* page's entry point when executeJSInit invokes it.                       *)
ContextPassThrough ==
  ( /\ ev.op = "insert"
    /\ ev.entry # "none"
    /\ ev.nav.ctx # NULL )
  => ev.args = <<ev.nav.ctx>>

(* A routes entry that registerRoutes has a branch for. *)
wellFormed(route) ==
  \/ route.type = "string"
  \/ route.type = "object" /\ route.path # NULL /\ route.page # NULL

(* C13: whatever malformed entries (structured entries lacking path or    *)
(* page, null, a number) the routes array holds and wherever they sit,    *)
(* after registerRoutes every well-formed entry of the array and every    *)
(* alias has its callback in the route table.                              *)
RegistrationRobust ==
  started =>
    /\ \A i \in 1..Len(config) :
         wellFormed(config[i]) =>
           \E k \in 1..Len(table) :
             IF config[i].type = "string"
             THEN /\ table[k].path = <<"/">> \o config[i].name
                  /\ table[k].handler = LoadPageHandler(config[i].name, FALSE)
             ELSE /\ table[k].path = config[i].path
                  /\ table[k].handler = LoadPageHandler(config[i].page, TRUE)
    /\ \A i \in 1..Len(aliasEntries) :
         \E k \in 1..Len(table) :
           /\ table[k].path = aliasEntries[i][1]
           /\ table[k].handler =
                LoadPageHandler(replaceFirst(aliasEntries[i][2], "/"), FALSE)

(* C14: the step that reveals a page dispatches one "pageChanged" event   *)
(* whose pageName is the page of that loadPage call, and at that moment   *)
(* currentPage is that page and the container is opaque; no other step    *)
(* dispatches the event: not the early return of a no-op navigation, not  *)
(* a call that ends in the not-found view, not the wildcard callback.     *)
PageChangedNotification ==
  /\ ev.op = "reveal" =>
       /\ ev.event = ev.nav.pageName
       /\ ev.event # NULL
       /\ currentPage = ev.event
       /\ opacity = "1"
  /\ ev.op # "reveal" => ev.event = NULL
  /\ ev.nav.html = "failed" \/ ev.nav.pc = "show404" => ev.event = NULL

(* A page has been revealed after another one, with its event. *)
PageChangedNotificationWitness ==
  /\ ev.op = "reveal"
  /\ ev.event = <<"chat">>
  /\ pre.currentPage = <<"home">>
  /\ currentPage = <<"chat">>
  /\ opacity = "1"

(* C15: the wiring of a page's listeners does not run in the registration *)
(* phase: an entry point is invoked only by the step that inserts the     *)
(* markup, and the wiring of page P never runs while the navigation to P  *)
(* is still awaiting its module, its stylesheet or its markup; this       *)
(* includes the spreadsheet page, whose module sets its wiring timer when *)
(* it is imported.                                                         *)
RegistrationDoesNotInitialise ==
  /\ ev.entry # "none" => ev.op = "insert"
  /\ ev.wire # NULL =>
       \A t \in Tasks :
         navs[t].pageName = ev.wire => navs[t].pc \notin {"register", "html"}

(* C16: with navigations one at a time, every navigation to a page P that *)
(* is not a no-op and whose entry point ran has P's listeners attached to *)
(* the markup it inserted once it is revealed and no wiring timer of P is *)
(* pending, on the first visit and on every later one.                     *)
WiringRedoneOnEveryVisit ==
  ( /\ ev.op = "reveal"
    /\ ev.nav.init = "ran"
    /\ ev.nav.pageName \notin timers )
  => wired

(* C17: when no element matches the container selector, init throws       *)
(* before any route or the wildcard is registered and before the router   *)
(* engine is started, and the handler still marks the shell ready; in      *)
(* every startup, failed or not, the shell #app eventually has the class  *)
(* "ready".                                                                *)
StartupAlwaysRevealsShell ==
  /\ [](~doc.content /\ boot # "loading" =>
          /\ table = << >>
          /\ ~started
          /\ boot = "done"
          /\ doc.app => appReady)
  /\ [](boot = "done" /\ doc.app => appReady)
  /\ (doc.app => <>appReady)

(* The startup has failed for want of the container, and the shell is     *)
(* ready.                                                                  *)
StartupAlwaysRevealsShellWitness ==
  /\ ~doc.content
  /\ ev.op = "init-threw"
  /\ boot = "done"
  /\ appReady
  /\ ~started

(* C18: overlapping navigations are last-write-wins.  A request that      *)
(* arrives while loadPage calls are in flight leaves those calls as they  *)
(* are; a call leaves only by its own reveal or by its own not-found      *)
(* view; a call whose imports all resolve goes through every phase and    *)
(* never to the not-found view; and every reveal makes its page the       *)
(* current page and the selected one, so that after overlapping calls     *)
(* have all ended, the page of the reveal that ran last is current.       *)
LastRevealWins ==
  /\ [][ requests' # requests =>
           \A t \in Tasks : navs[t].pc # "free" => navs'[t] = navs[t] ]_vars
  /\ [][ \A t \in Tasks :
           navs[t].pc # "free" /\ navs'[t].pc = "free" =>
             /\ ev'.task = t
             /\ ev'.op \in {"reveal", "notfound"} ]_vars
  /\ [][ \A t \in Tasks :
           ( /\ navs[t].pc # navs'[t].pc
             /\ navs[t].pc \in {"register", "html", "settle"}
             /\ navs'[t].js # "failed"
             /\ navs'[t].css # "failed"
             /\ navs'[t].html # "failed" )
           => <<navs[t].pc, navs'[t].pc>> \in
                { <<"register", "html">>, <<"html", "settle">>,
                  <<"settle", "free">> } ]_vars
  /\ [](ev.op = "reveal" =>
          /\ currentPage = ev.nav.pageName
          /\ selected = SelectionOf(ev.nav.pageName))

(* Two overlapping calls for different pages have both revealed; the one  *)
(* that inserted its markup first revealed last, and its page is current. *)
LastRevealWinsWitness ==
  /\ ev.op = "reveal"
  /\ Quiescent
  /\ currentPage = ev.nav.pageName
  /\ container \in { Markup(P) : P \in PageDirs \ {currentPage} }
  /\ ev.nav.html = "loaded"

(* C19: with navigations one at a time, a navigation requested while the  *)
(* container shows the not-found fragment, to a registered page P whose   *)
(* module, stylesheet and markup all resolve, ends with P's markup in the *)
(* container; also when P is the page that was current before the         *)
(* not-found view, and when the request is the not-found fragment's own   *)
(* link, navigate("/pdf-extraction").                                      *)
RecoveryFromNotFound ==
  ( /\ Ended
    /\ pre.container = NotFoundFragment
    /\ ev.nav.path \in RegisteredPaths
    /\ ev.nav.pageName \in PageDirs
    /\ ev.nav.js # "failed"
    /\ ev.nav.css # "failed"
    /\ ev.nav.html # "failed" )
  => container = Markup(ev.nav.pageName)

(* C20: the container's content is replaced, by a page's markup or by the *)
(* not-found fragment, only while the container is transparent: right     *)
(* after every step that assigns the content the opacity is "0", also     *)
(* when navigations overlap.                                               *)
NoSwapWhileVisible ==
  /\ ev.op \in {"insert", "wildcard", "html-failed"} => opacity = "0"
  /\ \A t \in Tasks : navs[t].pc = "show404" /\ ev.task = t => opacity = "0"

(* C21: whenever a "pageChanged" event with pageName P is dispatched, the *)
(* container's content at that instant is P's markup, in every            *)
(* interleaving of overlapping navigations and not-found renderings.      *)
NotificationMatchesDisplay ==
  ev.event # NULL => container = Markup(ev.event)

(* C22: for every navigation to P whose module loaded, the entry point is *)
(* invoked in the step that inserts P's markup and in no other step, so   *)
(* that nothing else assigns the container's content between the two and  *)
(* the entry point runs while the container holds P's markup; the         *)
(* listeners it attaches at once are attached in that step too.            *)
InsertThenInitIsAtomic ==
  /\ ev.op = "insert" /\ ev.nav.js = "loaded" =>
       /\ ev.entry # "none"
       /\ container = Markup(ev.nav.pageName)
       /\ navs[ev.task].init \in {"ran", "threw"}
  /\ ev.entry # "none" =>
       /\ ev.op = "insert"
       /\ ev.nav.jsModule.loaded
       /\ container = Markup(ev.nav.pageName)
  /\ \A t \in Tasks :
       navs[t].pc = "settle" /\ navs[t].js = "loaded" =>
         navs[t].init \in {"ran", "threw"}
  /\ ev.wire # NULL /\ ev.op = "insert" =>
       ev.wire = ev.nav.pageName /\ wired

(* A page's markup is inserted and its entry point invoked while another  *)
(* navigation is in flight.                                                *)
InsertThenInitIsAtomicWitness ==
  /\ ev.op = "insert"
  /\ ev.entry = "default"
  /\ container = Markup(ev.nav.pageName)
  /\ \E t \in Tasks : t # ev.task /\ navs[t].pc \in {"register", "html", "settle"}

(* C23: also when two navigations to the same page P, whose style is not  *)
(* yet cached, are in flight at the same time, the stylesheet import of P *)
(* is invoked at most once in the session (as long as it never rejected). *)
StyleNotDuplicatedByOverlap ==
  \A P \in DOMAIN cssCalls :
    P \notin cssFailed => cssCalls[P] <= 1

(* C24: currentPage is written only at successful completion: it is null  *)
(* or a page that has markup, and the only step that changes it is the    *)
(* reveal of a navigation whose markup was resolved and inserted, which   *)
(* sets it to that navigation's page; every other step (a no-op, a       *)
(* failed navigation, the not-found rendering, the start-up) leaves it    *)
(* as it was.                                                              *)
CurrentPageOnlyAtCompletion ==
  [][ /\ currentPage' = NULL \/ currentPage' \in PageDirs
      /\ currentPage' # currentPage =>
           /\ ev'.op = "reveal"
           /\ ev'.nav.html = "loaded"
           /\ \E t \in Tasks : navs[t].pc = "settle" /\ ev'.nav = navs[t]
           /\ currentPage' = ev'.nav.pageName ]_vars

(* A navigation failed on its markup after another page had been shown:   *)
(* the not-found fragment is visible and currentPage still names the      *)
(* page shown before.                                                      *)
CurrentPageOnlyAtCompletionWitness ==
  /\ ev.op = "notfound"
  /\ ev.nav.html = "failed"
  /\ container = NotFoundFragment
  /\ currentPage \in PageDirs

(* C25: the style cache grows monotonically: no step, of a successful, a  *)
(* failed or an overlapping navigation, removes an identifier from it,    *)
(* and a step adds an identifier only when that page's stylesheet import  *)
(* has just resolved: the page of the call whose import resolved, which   *)
(* was awaiting it, and nothing else.                                      *)
StyleCacheMonotone ==
  [][ /\ loadedCSS \subseteq loadedCSS'
      /\ loadedCSS' # loadedCSS =>
           /\ ev'.op = "css-loaded"
           /\ ev'.nav.css = "pending"
           /\ navs'[ev'.task].css = "loaded"
           /\ loadedCSS' = loadedCSS \cup {ev'.nav.pageName}
      /\ \A t \in Tasks :
           navs[t].css = "pending" /\ navs'[t].css = "failed" =>
             loadedCSS' = loadedCSS ]_vars

(* A second page's style is added while the first page's entry is kept,   *)
(* in a session in which a stylesheet import has also rejected.           *)
StyleCacheMonotoneWitness ==
  /\ ev.op = "css-loaded"
  /\ Cardinality(loadedCSS) = 2
  /\ ev.nav.pageName \in loadedCSS
  /\ cssFailed # {}

(* C26: markup and behavior are never cached.  A request that dispatches  *)
(* to loadPage(P) and is not the idempotent no-op invokes the import of   *)
(* P's module in that step, whatever the style cache holds and whatever   *)
(* was loaded before, and no later step invokes it again; the call then   *)
(* leaves its awaits exactly once, by invoking loadHTML(P), and it ends   *)
(* only with that markup resolved or rejected.                             *)
MarkupAndBehaviorNeverCached ==
  [][ /\ requests' # requests =>
           LET h == Dispatch(table, ev'.nav.path)
               ctx == IF h.kind = "loadPage" /\ h.withCtx
                      THEN <<ev'.nav.path>> ELSE NULL
           IN  h.kind = "loadPage" /\ ~(currentPage = h.page /\ ctx = NULL) =>
                 /\ <<"js", h.page>> \in ev'.calls
                 /\ <<"html", h.page>> \notin ev'.calls
                 /\ navs'[ev'.task].pc = "register"
                 /\ navs'[ev'.task].js = "pending"
                 /\ navs'[ev'.task].html = "none"
      /\ requests' = requests =>
           \A c \in ev'.calls : c[1] # "js"
      /\ \A t \in Tasks :
           /\ navs[t].pc = "register" /\ navs'[t].pc # "register" =>
                /\ navs'[t].pc = "html"
                /\ ev'.task = t
                /\ ev'.calls = {<<"html", navs[t].pageName>>}
           /\ navs[t].pc # "register" /\ requests' = requests =>
                (ev'.task = t => ev'.calls = {})
           /\ navs[t].pc \in {"html", "settle", "show404"} =>
                navs'[t].pc \notin {"register", "html"} \/ navs'[t] = navs[t]
      /\ ev'.op \in {"reveal", "notfound"} /\ ev'.nav.pageName # NULL =>
           ev'.nav.html \in {"loaded", "failed"} ]_vars

(* loadHTML is invoked by a navigation to a page whose style was in the   *)
(* cache when the navigation started: the page was loaded before.         *)
MarkupAndBehaviorNeverCachedWitness ==
  /\ <<"html", ev.nav.pageName>> \in ev.calls
  /\ ev.nav.css = "cached"
  /\ ev.nav.pageName \in loadedCSS

(* C27: a page module has a single entry point with a fixed preference:   *)
(* its default export if it has one, else its named init, else nothing   *)
(* (and nothing when the module did not load).  The inserting step of a   *)
(* navigation invokes exactly that one: for the spreadsheet page, whose   *)
(* module exports both, the default export and not init.  No other step   *)
(* invokes an entry point, and a call that has not inserted its markup    *)
(* yet has invoked none.                                                   *)
SingleEntryPoint ==
  /\ \A m \in [loaded : BOOLEAN, hasDefault : BOOLEAN, hasInit : BOOLEAN] :
       /\ m.loaded /\ m.hasDefault => executeJSInit(m) = "default"
       /\ m.loaded /\ ~m.hasDefault /\ m.hasInit => executeJSInit(m) = "init"
       /\ ~m.loaded \/ (~m.hasDefault /\ ~m.hasInit) => executeJSInit(m) = "none"
  /\ ev.op = "insert" =>
       /\ ev.nav.js = "loaded" => ev.nav.jsModule = PageModule(ev.nav.pageName)
       /\ ev.nav.js = "loaded" /\ ev.nav.jsModule.hasDefault => ev.entry = "default"
       /\ ev.nav.js = "failed" => ev.entry = "none"
  /\ ev.op # "insert" => ev.entry = "none"
  /\ \A t \in Tasks :
       navs[t].pc \in {"register", "html"} => navs[t].init = "none"

(* The markup of the spreadsheet page is inserted and, of the default and *)
(* the init export of its module, the default export is invoked.          *)
SingleEntryPointWitness ==
  /\ ev.op = "insert"
  /\ ev.nav.pageName = <<"excel">>
  /\ ev.nav.jsModule.hasDefault /\ ev.nav.jsModule.hasInit
  /\ ev.entry = "default"

(* C28: every navigation ends visible.  When every import settles and     *)
(* every pause ends, each call in flight terminates, by its reveal or by  *)
(* the end of the not-found rendering, and that step sets the opacity to  *)
(* "1"; once no further navigation is started, no call stays in flight    *)
(* and the opacity is "1" from then on.                                   *)
EveryNavigationEndsVisible ==
  /\ [][\A t \in Tasks :
          navs[t].pc # "free" /\ navs'[t].pc = "free" =>
            /\ ev'.op \in {"reveal", "notfound"}
            /\ ev'.task = t
            /\ opacity' = "1"]_vars
  /\ \A t \in Tasks : (navs[t].pc # "free") ~> (navs[t].pc = "free")
  /\ <>[](Quiescent /\ (requests > 0 => opacity = "1"))

(* Two navigations were in flight together, one of them failed, and both  *)
(* have ended: the container is opaque.                                    *)
EveryNavigationEndsVisibleWitness ==
  /\ Quiescent
  /\ requests = MaxNavigations
  /\ ev.op = "notfound"
  /\ opacity = "1"
  /\ container # NotFoundFragment

(* C29: a hung resolution stalls only its own navigation.  A call whose   *)
(* module or stylesheet import has not settled is still before loadHTML   *)
(* and a call whose markup has not settled has inserted nothing; a step   *)
(* that inserts markup, changes currentPage or makes the container opaque *)
(* is never a step of a call that is still awaiting an import.  While     *)
(* such a call is the only one in flight, the opacity stays "0" and the   *)
(* content and currentPage stay as they were.  The steps of another call  *)
(* do not wait for it: a call whose pause is running can reveal.          *)
HungStallsOnlyItself ==
  /\ [](\A t \in Tasks :
          /\ navs[t].js = "pending" \/ navs[t].css = "pending" =>
               navs[t].pc = "register"
          /\ navs[t].pc = "register" =>
               navs[t].html = "none" /\ navs[t].init = "none"
          /\ navs[t].pc = "html" =>
               navs[t].html = "pending" /\ navs[t].init = "none"
          /\ navs[t].pc \in {"register", "html"} /\ requests = 1 =>
               opacity = "0" /\ container = EmptyContent /\ currentPage = NULL
          /\ navs[t].pc = "settle" => ENABLED Reveal(t))
  /\ [][ /\ \/ container' # container
            \/ currentPage' # currentPage
            \/ opacity' = "1" /\ opacity # "1" =>
              /\ requests' = requests => navs[ev'.task].pc \in {"html", "settle", "show404"}
              /\ \A t \in Tasks :
                   navs[t].js = "pending" \/ navs[t].css = "pending" =>
                     navs'[t] = navs[t]
         /\ \A t \in Tasks :
              InFlight = {t} /\ InFlight' = {t} /\ navs'[t].pc \in {"register", "html"} =>
                opacity' = opacity /\ container' = container /\ currentPage' = currentPage
         /\ Quiescent /\ InFlight' # {} =>
              opacity' = "0" /\ currentPage' = currentPage ]_vars

(* The first navigation is still awaiting its module import, its          *)
(* stylesheet import having settled, and a navigation to another page     *)
(* that started later has been revealed.                                   *)
HungStallsOnlyItselfWitness ==
  /\ requests = 2
  /\ navs[1].pc = "register" /\ navs[1].js = "pending" /\ navs[1].css # "pending"
  /\ ev.op = "reveal" /\ ev.task = 2
  /\ ev.nav.pageName # navs[1].pageName
  /\ currentPage = ev.nav.pageName
  /\ container = Markup(ev.nav.pageName)
  /\ opacity = "1"

(* C30: aliases resolve to a concrete page before loading.  When a        *)
(* navigation to the source path of an alias entry invokes the loader,    *)
(* the identifier it hands over is the entry's target without its leading *)
(* "/" and names a page of the routes array; and the loader is never      *)
(* invoked with an identifier that occurs as an alias source only, not as *)
(* a page of the routes array.                                             *)
AliasResolvesToConcretePage ==
  LET routePages == { config[i].name : i \in 1..Len(config) }
      sources == { aliasEntries[i][1] : i \in 1..Len(aliasEntries) }
      invoked == ev.op \in {"noop", "start"}
  IN  /\ \A i \in 1..Len(aliasEntries) :
           invoked /\ ev.nav.path = aliasEntries[i][1] =>
             /\ ev.nav.pageName \in routePages
             /\ Head(aliasEntries[i][2]) = "/"
             /\ ev.nav.pageName = Tail(aliasEntries[i][2])
      /\ invoked /\ (<<"/">> \o ev.nav.pageName) \in sources =>
           ev.nav.pageName \in routePages

(* C31: the selection sync is an idempotent projection: for every page and *)
(* every previous selection of the items, applying                         *)
(* updateNavigationSelection a second time changes nothing, and the result *)
(* is the one obtained from the empty selection, so it does not depend on  *)
(* the previous selection; after every reveal the selection is what the    *)
(* sync yields from any selection, applied once or twice.                  *)
SelectionSyncIdempotent ==
  LET Selections == [1..Len(navItems) -> BOOLEAN]
      Pages == PageDirs \cup { <<"pdf-extraction">>, NULL }
  IN  /\ \A P \in Pages : \A s1 \in Selections :
           /\ updateNavigationSelection(updateNavigationSelection(s1, P), P)
                = updateNavigationSelection(s1, P)
           /\ updateNavigationSelection(s1, P)
                = updateNavigationSelection([i \in 1..Len(navItems) |-> FALSE], P)
      /\ ev.op = "reveal" =>
           /\ updateNavigationSelection(selected, ev.nav.pageName) = selected
           /\ \A s \in Selections :
                updateNavigationSelection(s, ev.nav.pageName) = selected

(* A reveal has replaced a selection that had an item selected by one that *)
(* selects other items.                                                    *)
SelectionSyncIdempotentWitness ==
  /\ ev.op = "reveal"
  /\ \E i \in DOMAIN selected : pre.selected[i] /\ ~selected[i]
  /\ \E i \in DOMAIN selected : ~pre.selected[i] /\ selected[i]

(* C32: the side navigation maps to routes.  A selection-change of an     *)
(* item that has a target attribute or no href requests no navigation;    *)
(* for an item whose href is "#P" or "/P" it requests exactly one         *)
(* navigation, to the path "/P", and when the page load this starts is    *)
(* revealed, the item that was clicked is among the selected items.       *)
WidgetToRoute ==
  clicked.item # 0 =>
    LET href == navItems[clicked.item]
    IN  /\ clicked.target \/ href = NULL =>
             /\ clicked.calls = << >>
             /\ requests = clicked.before
             /\ Quiescent
        /\ ~clicked.target /\ href # NULL /\ Head(href) \in {"#", "/"} =>
             /\ clicked.calls = << <<"/">> \o Tail(href) >>
             /\ requests = clicked.before + 1
             /\ ev.op \in {"start", "noop"} => ev.nav.path = <<"/">> \o Tail(href)
             /\ ev.op = "reveal" =>
                  /\ ev.nav.path = <<"/">> \o Tail(href)
                  /\ selected[clicked.item]

(* The item with the href "#home" was clicked while another page was       *)
(* shown, and the page it refers to has been revealed with the item        *)
(* selected.                                                                *)
WidgetToRouteWitness ==
  /\ clicked.item # 0
  /\ navItems[clicked.item] = <<"#", "home">>
  /\ pre.currentPage = <<"chat">>
  /\ ev.op = "reveal"
  /\ currentPage = <<"home">>
  /\ selected[clicked.item]

(* C33: the analysis history is bounded: it never holds more than 10      *)
(* entries; while at most 10 have been added it holds all of them, and    *)
(* once more have been added it holds exactly the 10 added last, in the   *)
(* order in which they were added.                                         *)
HistoryBounded ==
  LET h == excelPage.analysisHistory
      a == excelPage.added
  IN  /\ Len(h) <= 10
      /\ Len(a) <= 10 => h = a
      /\ Len(a) > 10 =>
           /\ Len(h) = 10
           /\ \A k \in 1..10 : h[k] = a[Len(a) - 10 + k]

(* More than 10 analyses have been recorded and the entry dropped last     *)
(* differs from the oldest entry kept.                                     *)
HistoryBoundedWitness ==
  /\ Len(excelPage.added) > 11
  /\ Len(excelPage.analysisHistory) = 10
  /\ excelPage.added[Len(excelPage.added) - 10] # excelPage.analysisHistory[1]

(* C34: the chat send button never stays busy.  When a processChatQuery   *)
(* call that sent its request finishes, with a successful response, an    *)
(* HTTP error status, a network failure or a malformed body, the button's *)
(* loading flag is false; with no call suspended the flag is false.  A    *)
(* prompt that is empty after trimming sends no request and leaves the    *)
(* flag as it was; any other prompt sends exactly one.                    *)
SendButtonNeverStaysBusy ==
  /\ chatPage.last.outcome \in {"ok", "http-error", "network-failure", "malformed-body"} =>
       ~chatPage.loading
  /\ (\A c \in ChatCalls : chatPage.calls[c] = "free") => ~chatPage.loading
  /\ chatPage.last.outcome = "empty" =>
       /\ chatPage.sent = chatPage.last.sent
       /\ chatPage.loading = chatPage.last.loading
  /\ chatPage.last.outcome = "sent" =>
       /\ chatPage.sent = chatPage.last.sent + 1
       /\ chatPage.loading

(* A query ended with a malformed response body after an earlier one had  *)
(* succeeded: the error is shown and the button is not loading.           *)
SendButtonNeverStaysBusyWitness ==
  /\ chatPage.last.outcome = "malformed-body"
  /\ chatPage.last.loading
  /\ chatPage.sent > 1
  /\ chatPage.response = "error"
  /\ ~chatPage.loading

(* C35: upload and analysis are guarded.  A handleFileUpload call for a   *)
(* file whose name does not end in ".xlsx" or ".xls", in any case of the  *)
(* letters, sends no upload request and shows an error; a performAnalysis *)
(* call sends no analyze request unless a file is current and the         *)
(* question is non-empty after trimming, and the request it sends is for  *)
(* that file and the trimmed question.                                     *)
UploadAndAnalysisGuarded ==
  LET last == excelPage.last
      n == last.input
      extension == IF Len(n) >= 2 /\ n[Len(n) - 1] = "." THEN n[Len(n)] ELSE ""
      spreadsheet == extension \in {"xlsx", "xls", "XLSX", "XLS", "Xlsx", "Xls"}
      blank == \A k \in 1..Len(n) : n[k] = " "
  IN  /\ last.op = "upload" /\ ~spreadsheet =>
           /\ last.sent = {}
           /\ last.error
      /\ last.op = "upload" =>
           \A r \in last.sent : r = <<"upload", n>> /\ spreadsheet
      /\ last.op = "analysis" /\ (last.fileId = NULL \/ blank) =>
           /\ last.sent = {}
           /\ last.error
      /\ last.op = "analysis" =>
           \A r \in last.sent :
             /\ r[1] = "analyze"
             /\ r[2] = last.fileId /\ r[2] # NULL
             /\ r[3] # << >> /\ r[3] = trim(n)
      /\ excelPage.analysis # NULL =>
           excelPage.analysis.fileId # NULL /\ excelPage.analysis.question # << >>
      /\ excelPage.upload # "none" \/ excelPage.currentFileId # NULL =>
           \E name \in FileNames : validExcelName(name)

(* With a file open, performAnalysis was called with a question of        *)
(* whitespace only: it showed an error and sent nothing.                   *)
UploadAndAnalysisGuardedWitness ==
  /\ excelPage.last.op = "analysis"
  /\ excelPage.last.fileId # NULL
  /\ excelPage.last.input = <<" ">>
  /\ excelPage.last.sent = {}
  /\ excelPage.last.error
  /\ Len(excelPage.added) > 0

====
